---------------------------- MODULE Spec2Model ----------------------------
(***************************************************************************)
(* A model of the A2A example clients of this repository:                  *)
(*                                                                         *)
(*   script/simple_a2a_client.py   main: resolves the agent card, consumes *)
(*       the streaming response event by event, folding artifact updates   *)
(*       into the `artifacts` dict and capturing `task_id`, prints the     *)
(*       final artifacts and queries the task once when an id was seen.    *)
(*   script/task_polling_client.py main / send_message_and_get_task_id /   *)
(*       poll_task_status: sends one message, then polls tasks/get.        *)
(*   script/task_query_example.py  main / query_task_by_id /               *)
(*       query_task_status: one tasks/get for the id on the command line.  *)
(*                                                                         *)
(* The SDK (A2AClient, A2ACardResolver) and the server are the             *)
(* environment: what they return is chosen nondeterministically.           *)
(* Wall-clock bookkeeping (request_start_time, first_response_time,        *)
(* artifact_times, stream_end_time) only feeds print statements and is     *)
(* left out.  Python strings are TLA+ strings, `+` is \o.                  *)
(***************************************************************************)
EXTENDS Naturals, Sequences, FiniteSets, TLC

VARIABLES
    pc,            \* simple_a2a_client.main: where control is
    agent_card,    \* the fetched `agent_card`: <<>> before, <<the card>> after
    artifacts,     \* the dict `artifacts`, as its items in insertion order
    task_id,       \* the local `task_id`: None or a non-empty string
    processed,     \* history: the responses the `async for` has yielded so far
    stream_end,    \* how the `async for` was left ("" while it runs)
    printed,       \* history: the dicts "Final artifacts:" has printed
    task_queries,  \* get_task requests issued by simple_a2a_client
    p_pc,          \* task_polling_client: where control is
    p_sent,        \* history: what send_message came back with
    p_task_id,     \* task_polling_client.main: the local `task_id`
    poll_count,    \* poll_task_status: the loop variable
    p_queries,     \* get_task requests issued by poll_task_status
    p_sleeps,      \* asyncio.sleep(poll_interval) calls made
    p_last,        \* what the latest get_task of the poll loop came back with
    p_seen,        \* history: every outcome a get_task of the poll loop had
    p_finished,    \* the status "Task finished with status:" printed, or None
    p_running,     \* "Reached maximum polls ... may still be running" printed
    q_pc,          \* task_query_example: where control is
    q_argv,        \* sys.argv[1:], the command-line arguments
    q_usage,       \* the usage lines were printed
    q_fetched,     \* history: the base URLs an agent card was fetched from
    q_queried      \* history: the task ids a get_task was issued for

streamVars ==
    <<pc, agent_card, artifacts, task_id, processed, stream_end, printed,
      task_queries>>
pollVars ==
    <<p_pc, p_sent, p_task_id, poll_count, p_queries, p_sleeps, p_last, p_seen,
      p_finished, p_running>>
queryVars == <<q_pc, q_argv, q_usage, q_fetched, q_queried>>
vars ==
    <<pc, agent_card, artifacts, task_id, processed, stream_end, printed,
      task_queries,
      p_pc, p_sent, p_task_id, poll_count, p_queries, p_sleeps, p_last, p_seen,
      p_finished, p_running,
      q_pc, q_argv, q_usage, q_fetched, q_queried>>

\* Python's None.
None == "None"

(***************************************************************************)
(* Bounds of the model.                                                    *)
(***************************************************************************)
\* The longest stream the server sends before it ends or breaks.
MaxEvents == 3
\* The most parts one artifact carries.
MaxParts == 2
\* The most command-line arguments task_query_example is started with.
MaxArgs == 3

(***************************************************************************)
(* The inputs: stream responses.                                           *)
(***************************************************************************)
\* TaskStatusUpdateEvent.taskId / TaskArtifactUpdateEvent.taskId; "" is falsy.
TaskIds == {"", "t1", "t2"}
ArtifactIds == {"A", "B"}
\* A part is a TextPart with its text, or some other part (FilePart, DataPart).
TextParts == {[kind |-> "text", text |-> t] : t \in {"a", "b"}}
OtherParts == {[kind |-> "file", text |-> ""]}
Parts == TextParts \cup OtherParts
PartLists == UNION {[1..n -> Parts] : n \in 0..MaxParts}

\* A response of send_message_streaming, by what main looks at:
\*   "error"    response.root.error is set
\*   "noresult" response.root has no result (and no error)
\*   "status"   result is a TaskStatusUpdateEvent (taskId, final)
\*   "artifact" result is a TaskArtifactUpdateEvent (taskId, artifactId, append, parts)
\*   "other"    result is anything else (a Task, a Message)
Plain(k) ==
    [kind |-> k, taskId |-> "", final |-> FALSE, artifactId |-> "",
     append |-> FALSE, parts |-> <<>>]
ErrorEvents == {Plain("error")}
NoResultEvents == {Plain("noresult")}
OtherEvents == {Plain("other")}
StatusEvents ==
    {[kind |-> "status", taskId |-> t, final |-> f, artifactId |-> "",
      append |-> FALSE, parts |-> <<>>] : t \in TaskIds, f \in BOOLEAN}
Artifact(t, a, ap, ps) ==
    [kind |-> "artifact", taskId |-> t, final |-> FALSE, artifactId |-> a,
     append |-> ap, parts |-> ps]
\* The task id (lines 92-94) and the parts (lines 110-119) of an artifact
\* update are read by separate statements; the inputs vary one of the two
\* at a time: every part list without a task id, every task id with one part.
ArtifactEvents ==
    {Artifact("", a, ap, ps) : a \in ArtifactIds, ap \in BOOLEAN, ps \in PartLists}
    \cup
    {Artifact(t, a, ap, <<[kind |-> "text", text |-> "a"]>>) :
        t \in TaskIds \ {""}, a \in ArtifactIds, ap \in BOOLEAN}

(***************************************************************************)
(* The dict `artifacts`: a sequence of items, in insertion order.          *)
(***************************************************************************)
Keys(d) == {d[i].id : i \in 1..Len(d)}
\* d[k], for k in d.
Get(d, k) == d[CHOOSE i \in 1..Len(d) : d[i].id = k].text
\* Put re-inserting a known key at the end (del d[k]; d[k] = v).
Put_MovesToEnd(d, k, v) ==
    LET Other(item) == item.id # k
    IN  Append(SelectSeq(d, Other), [id |-> k, text |-> v])

\* d[k] = v: a new key goes last, a known key keeps its place.
Put(d, k, v) ==
    IF k \in Keys(d)
    THEN [i \in 1..Len(d) |-> IF d[i].id = k THEN [id |-> k, text |-> v] ELSE d[i]]
    ELSE Append(d, [id |-> k, text |-> v])

\* Python truthiness of an optional string.
Truthy(s) == s # None /\ s # ""

(***************************************************************************)
(* simple_a2a_client.main, the body of the `async for`.                    *)
(***************************************************************************)
\* ApplyText with `=` where line 116 has `+=`.
ApplyText_Assigns(acc, text, append) == text

\* Lines 115-118: one TextPart applied to the accumulated text.
ApplyText(acc, text, append) ==
    IF append THEN acc \o text ELSE text

\* ApplyParts without the isinstance test of line 114: every part is applied,
\* a part that is no TextPart with the empty text.
RECURSIVE ApplyParts_AnyPart(_, _, _)
ApplyParts_AnyPart(acc, parts, append) ==
    IF parts = <<>> THEN acc
    ELSE ApplyParts_AnyPart(ApplyText(acc, Head(parts).text, append),
                            Tail(parts), append)

\* Lines 113-118: the loop over result.artifact.parts, as a fold from the left.
RECURSIVE ApplyParts(_, _, _)
ApplyParts(acc, parts, append) ==
    IF parts = <<>> THEN acc
    ELSE ApplyParts(IF Head(parts).kind = "text"
                    THEN ApplyText(acc, Head(parts).text, append)
                    ELSE acc,
                    Tail(parts), append)

\* Lines 110-118: the artifact branch's effect on `artifacts`.
AccumulateArtifact(d, e) ==
    LET d0 == IF e.artifactId \in Keys(d) THEN d ELSE Put(d, e.artifactId, "")
    IN  Put(d0, e.artifactId, ApplyParts(Get(d0, e.artifactId), e.parts, e.append))

\* Lines 80-81: the status branch's capture of the task id.
CaptureFromStatus(tid, e) ==
    IF Truthy(e.taskId) THEN e.taskId ELSE tid

\* Lines 92-93: the artifact branch's capture of the task id.
CaptureFromArtifact(tid, e) ==
    IF ~Truthy(tid) /\ Truthy(e.taskId) THEN e.taskId ELSE tid

\* AfterStatus without the break of line 88.
AfterStatus_NoBreak(e) == "stream"

\* Lines 85-88: a status update leaves the loop when it is final.
AfterStatus(e) == IF e.final THEN "report" ELSE "stream"

\* AfterError with `continue` where line 70 has `break`.
AfterError_NoBreak == "stream"

\* Lines 68-70: an error response leaves the loop.
AfterError == "report"

(***************************************************************************)
(* task_polling_client: what the server answers, and the loop's decisions. *)
(***************************************************************************)
\* Line 92.
max_polls == 30

\* task.status.state.value of a polled task.  "canceled" is the protocol's
\* spelling, "cancelled" the one line 139 tests for.
TaskStates == {"working", "canceled", "completed", "failed", "cancelled"}

\* What one `await client.get_task(request)` does: it returns an error
\* response, it raises, or it returns a task in some state (the SDK's
\* response is one or the other: it has an error or it has a result).
NoOutcome == [kind |-> "none", state |-> ""]
PollOutcomes ==
    {[kind |-> "error", state |-> ""], [kind |-> "raise", state |-> ""]}
    \cup {[kind |-> "result", state |-> s] : s \in TaskStates}

\* What `await client.send_message(request)` does: an error response, an
\* exception, or a result whose taskId and id are given ("" when the result
\* has no such attribute or it is empty).
NoSend == [kind |-> "none", taskId |-> "", id |-> ""]
SendOutcomes ==
    {[kind |-> "error", taskId |-> "", id |-> ""],
     [kind |-> "raise", taskId |-> "", id |-> ""]}
    \cup {[kind |-> "result", taskId |-> t, id |-> i] :
            t \in {"", "t1"}, i \in {"", "t2"}}

\* SentTaskId with the tests of lines 76 and 78 in the other order.
SentTaskId_PrefersId(o) ==
    IF o.kind # "result" THEN None
    ELSE IF Truthy(o.id) THEN o.id
    ELSE IF Truthy(o.taskId) THEN o.taskId
    ELSE None

\* Lines 65-86: the value send_message_and_get_task_id returns.
SentTaskId(o) ==
    IF o.kind # "result" THEN None
    ELSE IF Truthy(o.taskId) THEN o.taskId
    ELSE IF Truthy(o.id) THEN o.id
    ELSE None

\* IsTerminal recognising "completed" alone.
IsTerminal_CompletedOnly(status) == status = "completed"

\* Line 139.
IsTerminal(status) == status \in {"completed", "failed", "cancelled"}

\* SleepsAfter without the test of line 154.
SleepsAfter_Always(n) == TRUE

\* Line 154: the loop sleeps unless this was the last iteration.
SleepsAfter(n) == n < max_polls - 1

\* AfterFailedPoll retrying after the delay instead of breaking.
AfterFailedPoll_Retry == "sleep"

\* Lines 113-115 and 158-160: an error response or an exception breaks.
AfterFailedPoll == "after"

\* Lines 113-160: where control goes once iteration n has its outcome o.
AfterPoll(o, n) ==
    IF o.kind \in {"error", "raise"} THEN AfterFailedPoll
    ELSE IF IsTerminal(o.state) THEN "after"
    ELSE IF SleepsAfter(n) THEN "sleep"
    ELSE "after"

\* ReportsRunning with the bound off by one.
ReportsRunning_Late(n) == n >= max_polls

\* Line 162.
ReportsRunning(n) == n >= max_polls - 1

Init ==
    /\ pc = "card"
    /\ agent_card = <<>>
    /\ artifacts = <<>>
    /\ task_id = None
    /\ processed = <<>>
    /\ stream_end = ""
    /\ printed = <<>>
    /\ task_queries = 0
    /\ p_pc = "send"
    /\ p_sent = NoSend
    /\ p_task_id = None
    /\ poll_count = 0
    /\ p_queries = 0
    /\ p_sleeps = 0
    /\ p_last = NoOutcome
    /\ p_seen = {}
    /\ p_finished = None
    /\ p_running = FALSE
    /\ q_pc = "start"
    /\ q_argv = <<>>
    /\ q_usage = FALSE
    /\ q_fetched = <<>>
    /\ q_queried = <<>>

(***************************************************************************)
(* simple_a2a_client.main, step by step.                                   *)
(***************************************************************************)
\* ResolveCard without the test of lines 33-35.
ResolveCard_IgnoresFlag ==
    /\ pc = "card"
    /\ \E streaming \in BOOLEAN :
        /\ agent_card' = <<[streaming |-> streaming]>>
        /\ pc' = "stream"
    /\ UNCHANGED <<artifacts, task_id, processed, stream_end, printed, task_queries>>
    /\ UNCHANGED <<pollVars, queryVars>>

\* Lines 29-35: the card is fetched; without streaming support main returns.
\* (A failing fetch raises out of main before any of the state below exists.)
ResolveCard ==
    /\ pc = "card"
    /\ \E streaming \in BOOLEAN :
        /\ agent_card' = <<[streaming |-> streaming]>>
        /\ pc' = IF streaming THEN "stream" ELSE "done"
    /\ UNCHANGED <<artifacts, task_id, processed, stream_end, printed, task_queries>>
    /\ UNCHANGED <<pollVars, queryVars>>

\* Line 65: the stream yields one more response (at most MaxEvents of them).
Yields(e) ==
    /\ pc = "stream"
    /\ Len(processed) < MaxEvents
    /\ processed' = Append(processed, e)

\* Lines 68-70.
StreamError ==
    /\ \E e \in ErrorEvents : Yields(e)
    /\ pc' = AfterError
    /\ stream_end' = IF AfterError = "stream" THEN "" ELSE "error"
    /\ UNCHANGED <<artifacts, task_id, printed, task_queries>>
    /\ UNCHANGED <<agent_card>>
    /\ UNCHANGED <<pollVars, queryVars>>

\* StreamNoResult with `break` where line 74 has `continue`.
StreamNoResult_Breaks ==
    /\ \E e \in NoResultEvents : Yields(e)
    /\ pc' = "report"
    /\ stream_end' = "error"
    /\ UNCHANGED <<artifacts, task_id, printed, task_queries>>
    /\ UNCHANGED <<agent_card>>
    /\ UNCHANGED <<pollVars, queryVars>>

\* Lines 72-74.
StreamNoResult ==
    /\ \E e \in NoResultEvents : Yields(e)
    /\ UNCHANGED <<pc, artifacts, task_id, stream_end, printed, task_queries>>
    /\ UNCHANGED <<agent_card>>
    /\ UNCHANGED <<pollVars, queryVars>>

\* Lines 79-88.
StreamStatus ==
    /\ \E e \in StatusEvents :
        /\ Yields(e)
        /\ task_id' = CaptureFromStatus(task_id, e)
        /\ pc' = AfterStatus(e)
        /\ stream_end' = IF AfterStatus(e) = "stream" THEN "" ELSE "final"
    /\ UNCHANGED <<artifacts, printed, task_queries>>
    /\ UNCHANGED <<agent_card>>
    /\ UNCHANGED <<pollVars, queryVars>>

\* Lines 90-119.
StreamArtifact ==
    /\ \E e \in ArtifactEvents :
        /\ Yields(e)
        /\ task_id' = CaptureFromArtifact(task_id, e)
        /\ artifacts' = AccumulateArtifact(artifacts, e)
    /\ UNCHANGED <<pc, stream_end, printed, task_queries>>
    /\ UNCHANGED <<agent_card>>
    /\ UNCHANGED <<pollVars, queryVars>>

\* Lines 79, 90: a result of another type matches neither branch.
StreamOther ==
    /\ \E e \in OtherEvents : Yields(e)
    /\ UNCHANGED <<pc, artifacts, task_id, stream_end, printed, task_queries>>
    /\ UNCHANGED <<agent_card>>
    /\ UNCHANGED <<pollVars, queryVars>>

\* Line 65: the async iterator is exhausted, the loop ends.
StreamExhausted ==
    /\ pc = "stream"
    /\ pc' = "report"
    /\ stream_end' = "exhausted"
    /\ UNCHANGED <<artifacts, task_id, processed, printed, task_queries>>
    /\ UNCHANGED <<agent_card>>
    /\ UNCHANGED <<pollVars, queryVars>>

\* StreamRaises without the try/except of lines 64 and 121: the exception
\* leaves main.
StreamRaises_Escapes ==
    /\ pc = "stream"
    /\ pc' = "done"
    /\ stream_end' = "exception"
    /\ UNCHANGED <<artifacts, task_id, processed, printed, task_queries>>
    /\ UNCHANGED <<agent_card>>
    /\ UNCHANGED <<pollVars, queryVars>>

\* Lines 121-123: the iterator raises, the except clause logs it.
StreamRaises ==
    /\ pc = "stream"
    /\ pc' = "report"
    /\ stream_end' = "exception"
    /\ UNCHANGED <<artifacts, task_id, processed, printed, task_queries>>
    /\ UNCHANGED <<agent_card>>
    /\ UNCHANGED <<pollVars, queryVars>>

\* Report without the test of line 152.
Report_AlwaysQueries ==
    /\ pc = "report"
    /\ printed' = Append(printed, artifacts)
    /\ pc' = "query"
    /\ UNCHANGED <<artifacts, task_id, processed, stream_end, task_queries>>
    /\ UNCHANGED <<agent_card>>
    /\ UNCHANGED <<pollVars, queryVars>>

\* Lines 147-156: the final artifacts are printed; with a task id the task
\* is queried, without one main ends.
Report ==
    /\ pc = "report"
    /\ printed' = Append(printed, artifacts)
    /\ pc' = IF Truthy(task_id) THEN "query" ELSE "done"
    /\ UNCHANGED <<artifacts, task_id, processed, stream_end, task_queries>>
    /\ UNCHANGED <<agent_card>>
    /\ UNCHANGED <<pollVars, queryVars>>

\* Lines 158-202: query_task_status issues one get_task; whatever comes back
\* (a result, an error, an exception) is printed or logged.
QueryTaskStatus ==
    /\ pc = "query"
    /\ task_queries' = task_queries + 1
    /\ pc' = "done"
    /\ UNCHANGED <<artifacts, task_id, processed, stream_end, printed>>
    /\ UNCHANGED <<agent_card>>
    /\ UNCHANGED <<pollVars, queryVars>>

Next ==
    \/ ResolveCard
    \/ StreamError
    \/ StreamNoResult
    \/ StreamStatus
    \/ StreamArtifact
    \/ StreamOther
    \/ StreamExhausted
    \/ StreamRaises
    \/ Report
    \/ QueryTaskStatus

Spec == Init /\ [][Next]_vars

(***************************************************************************)
(* task_polling_client, step by step.                                      *)
(***************************************************************************)
\* Lines 35-44: the message is sent; without a task id main returns.
SendMessage ==
    /\ p_pc = "send"
    /\ \E o \in SendOutcomes :
        /\ p_sent' = o
        /\ p_task_id' = SentTaskId(o)
        /\ p_pc' = IF Truthy(SentTaskId(o)) THEN "poll" ELSE "done"
    /\ UNCHANGED <<poll_count, p_queries, p_sleeps, p_last, p_seen, p_finished,
                   p_running>>
    /\ UNCHANGED <<streamVars, queryVars>>

\* Lines 95-154: one iteration of the loop, up to its break, its sleep or its
\* end.  After the last iteration the range is exhausted and poll_count
\* keeps its value.
PollOnce ==
    /\ p_pc = "poll"
    /\ \E o \in PollOutcomes :
        /\ p_queries' = p_queries + 1
        /\ p_last' = o
        /\ p_seen' = p_seen \cup {o}
        /\ p_finished' =
              IF o.kind = "result" /\ IsTerminal(o.state) THEN o.state
              ELSE p_finished
        /\ p_pc' = AfterPoll(o, poll_count)
    /\ UNCHANGED <<p_task_id, poll_count, p_sleeps, p_running>>
    /\ UNCHANGED <<p_sent>>
    /\ UNCHANGED <<streamVars, queryVars>>

\* Lines 155-156, then line 95: the sleep ends and the next iteration starts.
Sleep ==
    /\ p_pc = "sleep"
    /\ p_sleeps' = p_sleeps + 1
    /\ IF poll_count + 1 < max_polls
       THEN poll_count' = poll_count + 1 /\ p_pc' = "poll"
       ELSE poll_count' = poll_count /\ p_pc' = "after"
    /\ UNCHANGED <<p_task_id, p_queries, p_last, p_seen, p_finished, p_running>>
    /\ UNCHANGED <<p_sent>>
    /\ UNCHANGED <<streamVars, queryVars>>

\* Lines 162-163.
AfterLoop ==
    /\ p_pc = "after"
    /\ p_running' = ReportsRunning(poll_count)
    /\ p_pc' = "done"
    /\ UNCHANGED <<p_task_id, poll_count, p_queries, p_sleeps, p_last, p_seen,
                   p_finished>>
    /\ UNCHANGED <<p_sent>>
    /\ UNCHANGED <<streamVars, queryVars>>

PollNext ==
    \/ SendMessage
    \/ PollOnce
    \/ Sleep
    \/ AfterLoop

PollSpec == Init /\ [][PollNext]_vars

(***************************************************************************)
(* task_query_example, step by step.                                       *)
(***************************************************************************)
\* What may stand on the command line after the script's name.
ArgValues == {"t1", "t2", "http://localhost:8080"}
ArgLists == UNION {[1..n -> ArgValues] : n \in 0..MaxArgs}

\* Lines 14 and 144: the default base URL.
DefaultBaseUrl == "http://192.168.42.78:8000"

\* Line 137: len(sys.argv) < 2, argv being sys.argv[1:].
LacksTaskId(argv) == Len(argv) + 1 < 2

\* Line 143.
QTaskId(argv) == argv[1]

\* QBaseUrl ignoring sys.argv[2].
QBaseUrl_Default(argv) == DefaultBaseUrl

\* Line 144.
QBaseUrl(argv) == IF Len(argv) + 1 > 2 THEN argv[2] ELSE DefaultBaseUrl

\* Lines 135-149: main reads the command line; without a task id it prints
\* the usage lines and returns.
QMain ==
    /\ q_pc = "start"
    /\ \E argv \in ArgLists :
        /\ q_argv' = argv
        /\ q_usage' = LacksTaskId(argv)
        /\ q_pc' = IF LacksTaskId(argv) THEN "done" ELSE "card"
    /\ UNCHANGED <<q_fetched, q_queried>>
    /\ UNCHANGED <<streamVars, pollVars>>

\* Lines 27-42: query_task_by_id fetches the agent card from base_url; a
\* failing fetch is caught and ends the run.
QFetchCard ==
    /\ q_pc = "card"
    /\ q_fetched' = Append(q_fetched, QBaseUrl(q_argv))
    /\ \E fetched \in BOOLEAN : q_pc' = IF fetched THEN "query" ELSE "done"
    /\ UNCHANGED <<q_argv, q_usage, q_queried>>
    /\ UNCHANGED <<streamVars, pollVars>>

\* Lines 46-133: query_task_status issues one get_task for task_id; whatever
\* comes back (a result, an error, an exception) is printed or logged.
QQueryTask ==
    /\ q_pc = "query"
    /\ q_queried' = Append(q_queried, QTaskId(q_argv))
    /\ q_pc' = "done"
    /\ UNCHANGED <<q_argv, q_usage, q_fetched>>
    /\ UNCHANGED <<streamVars, pollVars>>

QueryNext ==
    \/ QMain
    \/ QFetchCard
    \/ QQueryTask

QuerySpec == Init /\ [][QueryNext]_vars

(***************************************************************************)
(* What the claims speak of, read off the history of the stream.           *)
(***************************************************************************)
\* The text an artifact id has accumulated ("" for an id not seen).
TextOf(d, a) == IF a \in Keys(d) THEN Get(d, a) ELSE ""

\* The entry of an id, to compare across a step: <<>> or <<its text>>.
EntryOf(d, a) == IF a \in Keys(d) THEN <<Get(d, a)>> ELSE <<>>

\* The text parts of a part list, concatenated in order.
RECURSIVE TextOfParts(_)
TextOfParts(parts) ==
    IF parts = <<>> THEN ""
    ELSE (IF Head(parts).kind = "text" THEN Head(parts).text ELSE "")
         \o TextOfParts(Tail(parts))

NumTextParts(parts) == Cardinality({i \in 1..Len(parts) : parts[i].kind = "text"})

IsArtifactFor(e, a) == e.kind = "artifact" /\ e.artifactId = a

\* Every artifact update for id a in the log carries append=true.
OnlyAppends(log, a) ==
    \A i \in 1..Len(log) : IsArtifactFor(log[i], a) => log[i].append

NumUpdatesFor(log, a) == Cardinality({i \in 1..Len(log) : IsArtifactFor(log[i], a)})

\* All text parts of the log's artifact updates for id a, in arrival order.
RECURSIVE ArrivedText(_, _)
ArrivedText(log, a) ==
    IF log = <<>> THEN ""
    ELSE (IF IsArtifactFor(Head(log), a) THEN TextOfParts(Head(log).parts) ELSE "")
         \o ArrivedText(Tail(log), a)

\* The task id of the earliest status or artifact update that carried one.
RECURSIVE FirstSeenTaskId(_)
FirstSeenTaskId(log) ==
    IF log = <<>> THEN None
    ELSE IF Head(log).kind \in {"status", "artifact"} /\ Head(log).taskId # ""
         THEN Head(log).taskId
         ELSE FirstSeenTaskId(Tail(log))

LastProcessed == processed[Len(processed)]
IsFinalStatus(e) == e.kind = "status" /\ e.final
\* This step is one iteration of the `async for`; JustYielded is its response.
Consumes == Len(processed') = Len(processed) + 1
JustYielded == processed'[Len(processed')]

(***************************************************************************)
(* The claims about simple_a2a_client.main.                                *)
(***************************************************************************)
\* C1: for every artifact id whose updates all carried append=true, the
\* accumulated text is the concatenation, in arrival order, of all text parts
\* of the processed updates for that id, starting from the empty string
\* (after every processed prefix, so also when consumption stops).
C1_AppendConcatenates ==
    \A a \in ArtifactIds :
        OnlyAppends(processed, a) => TextOf(artifacts, a) = ArrivedText(processed, a)

\* C1's case: main is over, two updates for "A" arrived, both append=true,
\* the first with two text parts, and "A" holds their three texts in order.
C1_Witness ==
    /\ pc = "done"
    /\ OnlyAppends(processed, "A")
    /\ NumUpdatesFor(processed, "A") = 2
    /\ "A" \in Keys(artifacts)
    /\ Get(artifacts, "A") = "abb"
    /\ printed = <<artifacts>>

\* C2 as stated: an update with append=false for id X makes X's accumulated
\* text that event's text (all of its text parts), and leaves every other
\* id's entry as it was.
C2_ReplaceResetsOneId ==
    [][(Consumes /\ JustYielded.kind = "artifact" /\ ~JustYielded.append)
         => /\ TextOf(artifacts', JustYielded.artifactId)
                 = TextOfParts(JustYielded.parts)
            /\ \A a \in ArtifactIds \ {JustYielded.artifactId} :
                 EntryOf(artifacts', a) = EntryOf(artifacts, a)]_vars

\* C3: once a final status update has been processed, no further response is
\* processed and neither the accumulator nor the task id changes.
C3_FinalStops ==
    [][(processed # <<>> /\ IsFinalStatus(LastProcessed))
         => /\ processed' = processed
            /\ artifacts' = artifacts
            /\ task_id' = task_id]_vars

\* C3's case: a final status update came second of at most MaxEvents
\* responses, after an artifact update, and main ran to its end.
C3_Witness ==
    /\ pc = "done"
    /\ Len(processed) = 2
    /\ processed[1].kind = "artifact"
    /\ IsFinalStatus(processed[2])
    /\ stream_end = "final"
    /\ printed = <<artifacts>>

\* C4: an error response changes no accumulator entry and ends consumption
\* (the loop is left, nothing is processed after it), and what is printed
\* afterwards is the accumulator as the responses before the error built it.
C4_ErrorStops ==
    [][/\ (Consumes /\ JustYielded.kind = "error")
            => artifacts' = artifacts /\ pc' # "stream"
       /\ (processed # <<>> /\ LastProcessed.kind = "error")
            => /\ processed' = processed
               /\ artifacts' = artifacts
               /\ (printed' # printed => printed' = <<artifacts>>)]_vars

\* C4's case: an artifact update, then an error response; main printed the
\* accumulator of the first.
C4_Witness ==
    /\ pc = "done"
    /\ Len(processed) = 2
    /\ processed[1].kind = "artifact"
    /\ processed[2].kind = "error"
    /\ stream_end = "error"
    /\ printed = << <<[id |-> "A", text |-> "ab"]>> >>

\* C9 as stated: an update with several text parts applies the concatenation
\* of all of them, whether it replaces (append=false) or appends (append=true).
C9_PartsConcatenated ==
    [][(Consumes /\ JustYielded.kind = "artifact"
            /\ NumTextParts(JustYielded.parts) >= 2)
         => TextOf(artifacts', JustYielded.artifactId)
              = IF JustYielded.append
                THEN TextOf(artifacts, JustYielded.artifactId)
                       \o TextOfParts(JustYielded.parts)
                ELSE TextOfParts(JustYielded.parts)]_vars

\* C10 as stated: after every processed prefix the captured task id is the
\* one of the earliest status or artifact update that carried a non-empty
\* task id (None when none did).
C10_FirstSeenTaskId ==
    task_id = FirstSeenTaskId(processed)

(***************************************************************************)
(* The claims about poll_task_status.                                      *)
(***************************************************************************)
Terminal == {"completed", "failed", "cancelled"}
IsRunningResult(o) == o.kind = "result" /\ o.state \notin Terminal
IsTerminalResult(o) == o.kind = "result" /\ o.state \in Terminal

\* C5: a run all of whose polls returned a non-terminal result made exactly
\* max_polls queries when the loop is over, then prints the "may still be
\* running" report and returns; no run makes more than max_polls queries.
C5_BudgetExhausted ==
    /\ p_queries <= max_polls
    /\ (p_seen # {} /\ \A o \in p_seen : IsRunningResult(o))
         => /\ (p_pc \in {"after", "done"} => p_queries = max_polls)
            /\ (p_pc = "done" => p_running)

\* C5's case: max_polls polls, each a non-terminal result, and the report.
C5_Witness ==
    /\ p_pc = "done"
    /\ p_seen = {[kind |-> "result", state |-> "working"],
                 [kind |-> "result", state |-> "canceled"]}
    /\ p_queries = max_polls
    /\ p_running

\* C6: once a poll has returned completed, failed or cancelled, no further
\* query and no delay happens, and that state is the finishing status.
C6_TerminalPollIsLast ==
    [][IsTerminalResult(p_last)
         => /\ p_queries' = p_queries
            /\ p_sleeps' = p_sleeps
            /\ p_finished = p_last.state
            /\ p_finished' = p_finished]_vars

\* C6's case: the second poll returned failed; one delay, two queries.
C6_Witness ==
    /\ p_pc = "done"
    /\ p_last = [kind |-> "result", state |-> "failed"]
    /\ p_finished = "failed"
    /\ p_queries = 2
    /\ p_sleeps = 1

\* C7 as stated: the "may still be running" report is printed only by a run
\* whose budget ran out with no poll observing a terminal state, an error or
\* an exception.
C7_ReportOnlyWhenExhausted ==
    p_running => IsRunningResult(p_last)

\* C8: every iteration issues exactly one query (poll_count iterations are
\* over when one starts, poll_count + 1 queries are out when one ends), and
\* after a poll that returned an error or raised no further query is issued.
C8_OneQueryNoRetry ==
    [][/\ (p_last.kind \in {"error", "raise"} => p_queries' = p_queries)
       /\ (p_pc' = "poll" => p_queries' = poll_count')
       /\ (p_pc' \in {"sleep", "after"} => p_queries' = poll_count' + 1)]_vars

\* C8's case: two polls returned a running task, the third raised.
C8_Witness ==
    /\ p_pc = "done"
    /\ p_last.kind = "raise"
    /\ p_queries = 3
    /\ p_sleeps = 2
    /\ ~p_running

(***************************************************************************)
(* Further claims about simple_a2a_client.main.                            *)
(***************************************************************************)
\* The keys of the dict, in its order.
KeyOrder(d) == [i \in 1..Len(d) |-> d[i].id]

\* The artifact ids of the log's artifact updates, each at its first sighting.
RECURSIVE FirstSightings(_, _)
FirstSightings(log, seen) ==
    IF log = <<>> THEN <<>>
    ELSE IF Head(log).kind = "artifact" /\ Head(log).artifactId \notin seen
         THEN <<Head(log).artifactId>>
                \o FirstSightings(Tail(log), seen \cup {Head(log).artifactId})
         ELSE FirstSightings(Tail(log), seen)

\* A part list without the parts that are no TextPart.
IsTextPart(part) == part.kind = "text"
TextPartsOf(parts) == SelectSeq(parts, IsTextPart)

\* C11: after every processed prefix the accumulator's keys are the artifact
\* ids in the order of their first sighting; a repeated id neither moves nor
\* duplicates its entry.
C11_KeysInFirstSeenOrder ==
    KeyOrder(artifacts) = FirstSightings(processed, {})

\* C11's case: ids arrived as A, B, A, the last update with append=false and a
\* text; the keys are A, B.
C11_Witness ==
    /\ pc = "done"
    /\ Len(processed) = 3
    /\ IsArtifactFor(processed[1], "A")
    /\ IsArtifactFor(processed[2], "B")
    /\ IsArtifactFor(processed[3], "A")
    /\ ~processed[3].append
    /\ NumTextParts(processed[3].parts) = 1
    /\ KeyOrder(artifacts) = <<"A", "B">>
    /\ printed = <<artifacts>>

\* C12: a response that is neither a status update, nor an artifact update,
\* nor an error (a result of another type, or no result and no error) leaves
\* the loop running and changes nothing but the count of responses consumed:
\* what follows is processed from the very state it found.
C12_AnomalySkipped ==
    [][(Consumes /\ JustYielded.kind \in {"other", "noresult"})
         => /\ pc' = "stream"
            /\ UNCHANGED <<artifacts, task_id, stream_end, printed, task_queries>>]_vars

\* C12's case: a response without result, one of another type, then an
\* artifact update that was still processed.
C12_Witness ==
    /\ pc = "done"
    /\ Len(processed) = 3
    /\ processed[1].kind = "noresult"
    /\ processed[2].kind = "other"
    /\ processed[3].kind = "artifact"
    /\ artifacts = <<[id |-> "B", text |-> "ba"]>>
    /\ printed = <<artifacts>>

\* C13: once the stream has raised, nothing more is consumed (no retry), the
\* accumulator and the task id stay as the responses before the failure left
\* them, main goes on to print that accumulator, and it ends having queried
\* the task exactly when a task id was captured.
C13_TransportFailure ==
    [][/\ stream_end = "exception"
            => /\ UNCHANGED <<processed, artifacts, task_id, stream_end>>
               /\ pc' \in {"report", "query", "done"}
       /\ (stream_end' = "exception" /\ pc' \in {"query", "done"})
            => printed' = <<artifacts'>>
       /\ (stream_end' = "exception" /\ pc' = "done")
            => task_queries' = IF Truthy(task_id') THEN 1 ELSE 0]_vars

\* C13's case: an artifact update carrying a task id, then the failure; the
\* accumulator was printed and the task queried.
C13_Witness ==
    /\ pc = "done"
    /\ stream_end = "exception"
    /\ Len(processed) = 1
    /\ artifacts = <<[id |-> "A", text |-> "a"]>>
    /\ task_id = "t1"
    /\ printed = <<artifacts>>
    /\ task_queries = 1

\* C16: a status update changes no accumulated text; an artifact update acts
\* on the accumulator as the same update without its non-text parts does; and
\* an artifact update without text parts only creates an empty entry for an
\* unseen id.
C16_OnlyTextPartsCount ==
    [][/\ (Consumes /\ JustYielded.kind = "status") => artifacts' = artifacts
       /\ (Consumes /\ JustYielded.kind = "artifact")
            => artifacts' = AccumulateArtifact(artifacts,
                  [JustYielded EXCEPT !.parts = TextPartsOf(JustYielded.parts)])
       /\ (Consumes /\ JustYielded.kind = "artifact"
             /\ NumTextParts(JustYielded.parts) = 0)
            => artifacts' =
                 IF JustYielded.artifactId \in Keys(artifacts) THEN artifacts
                 ELSE Append(artifacts,
                             [id |-> JustYielded.artifactId, text |-> ""])]_vars

\* C16's case: "A" held "a"; an update for "A" with append=false and a single
\* non-text part, and one for the unseen "B" with no text part, followed.
C16_Witness ==
    /\ pc = "done"
    /\ Len(processed) = 3
    /\ IsArtifactFor(processed[2], "A")
    /\ ~processed[2].append
    /\ processed[2].parts = <<[kind |-> "file", text |-> ""]>>
    /\ IsArtifactFor(processed[3], "B")
    /\ NumTextParts(processed[3].parts) = 0
    /\ artifacts = <<[id |-> "A", text |-> "a"], [id |-> "B", text |-> ""]>>

\* C17: the follow-up get_task is issued at most once, only after the stream
\* has been left and the artifacts printed, only with a captured task id; and
\* a main that ends after the stream has issued it exactly when it had one.
C17_QueryAfterStream ==
    /\ task_queries <= 1
    /\ task_queries = 1
         => /\ pc = "done"
            /\ stream_end # ""
            /\ Len(printed) = 1
            /\ Truthy(task_id)
    /\ (pc = "done" /\ stream_end # "")
         => task_queries = IF Truthy(task_id) THEN 1 ELSE 0

\* C17's case: main ended after a final status update without ever seeing a
\* task id, the full stream consumed, and made no query.
C17_Witness ==
    /\ pc = "done"
    /\ stream_end = "final"
    /\ Len(processed) = MaxEvents
    /\ task_id = None
    /\ task_queries = 0
    /\ Len(printed) = 1

\* C19: with a card whose streaming flag is false the run is over right after
\* the card was resolved: no response is ever consumed, the accumulator is
\* empty, nothing is printed and no task is queried.
C19_NoStreamingNoRun ==
    (agent_card # <<>> /\ ~agent_card[1].streaming)
        => /\ pc = "done"
           /\ processed = <<>>
           /\ stream_end = ""
           /\ artifacts = <<>>
           /\ task_id = None
           /\ printed = <<>>
           /\ task_queries = 0

\* C19's case: the card without streaming support was resolved.
C19_Witness ==
    /\ agent_card = <<[streaming |-> FALSE]>>
    /\ pc = "done"

(***************************************************************************)
(* Further claims about task_polling_client.                               *)
(***************************************************************************)
\* C15: a poll is followed by a delay exactly when it returned a non-terminal
\* result and was not the last allowed poll; a delay is followed by the next
\* iteration (never by the end of the loop); and once the loop is over there
\* were fewer delays than polls.
C15_DelayOnlyBetweenPolls ==
    [][/\ (p_queries' = p_queries + 1)
            => ((p_pc' = "sleep")
                  <=> (IsRunningResult(p_last') /\ p_queries' < max_polls))
       /\ (p_pc' = "sleep") => (p_queries' = p_queries + 1)
       /\ (p_sleeps' = p_sleeps + 1) => (p_pc = "sleep" /\ p_pc' = "poll")
       /\ (p_pc' \in {"after", "done"} /\ p_queries' >= 1)
            => (p_sleeps' <= p_queries' - 1)]_vars

\* C15's case: all max_polls polls returned a running task; max_polls - 1
\* delays.
C15_Witness ==
    /\ p_pc = "done"
    /\ p_queries = max_polls
    /\ p_sleeps = max_polls - 1
    /\ IsRunningResult(p_last)

\* C18: no get_task is issued before the send has returned a non-empty task
\* id; a send that returned an error, raised, or returned a result with
\* neither taskId nor id ends the run without any query; a result with a
\* taskId has that taskId polled, whatever its id.
C18_PollOnlyWithTaskId ==
    /\ p_queries > 0 => (p_sent.kind = "result" /\ Truthy(p_task_id))
    /\ (p_pc # "send"
          /\ (p_sent.kind \in {"error", "raise"}
                \/ (p_sent.kind = "result" /\ p_sent.taskId = "" /\ p_sent.id = "")))
         => (p_pc = "done" /\ p_queries = 0 /\ p_task_id = None)
    /\ (p_sent.kind = "result" /\ p_sent.taskId # "")
         => p_task_id = p_sent.taskId

\* C18's case: the result carried both a taskId and an id; the taskId was
\* polled.
C18_Witness ==
    /\ p_pc = "done"
    /\ p_sent = [kind |-> "result", taskId |-> "t1", id |-> "t2"]
    /\ p_task_id = "t1"
    /\ p_queries = 2

(***************************************************************************)
(* The claim about task_query_example.main.                                *)
(***************************************************************************)
\* C14: started without a task id, main prints the usage lines and issues no
\* request (no card fetch, no get_task); started with one, it fetches the
\* card from the second argument when there is one and from the default URL
\* otherwise, and issues at most one get_task, for that task id.
C14_UsageOrOneQuery ==
    /\ (q_pc # "start" /\ Len(q_argv) = 0)
         => (q_usage /\ q_fetched = <<>> /\ q_queried = <<>>)
    /\ (q_pc # "start" /\ Len(q_argv) >= 1)
         => /\ ~q_usage
            /\ Len(q_queried) <= 1
            /\ \A i \in 1..Len(q_queried) : q_queried[i] = q_argv[1]
            /\ Len(q_fetched) <= 1
            /\ \A i \in 1..Len(q_fetched) :
                 q_fetched[i] = IF Len(q_argv) >= 2 THEN q_argv[2]
                                ELSE "http://192.168.42.78:8000"

\* C14's case: a task id and a base URL were given; the card came from that
\* URL and the task was queried once.
C14_Witness ==
    /\ q_pc = "done"
    /\ q_argv = <<"t1", "http://localhost:8080">>
    /\ q_fetched = <<"http://localhost:8080">>
    /\ q_queried = <<"t1">>

=============================================================================
